---- MODULE Spec2Model ----
(***************************************************************************)
(* Model of the QAterm model servers (src/modelServer.js: ModelServer, the *)
(* process variant; src/vllmServer.js: VLLMServer, the HTTP variant).      *)
(*                                                                         *)
(* The server is a single-threaded Node.js program: every action below is  *)
(* one event-loop callback (socket accept, socket 'data', socket 'close' / *)
(* 'error', backend stdout 'data', timer, HTTP reply, backend 'close')     *)
(* together with the promise continuations (microtasks) it triggers, which *)
(* run before any other callback.                                          *)
(*                                                                         *)
(* Text is abstracted as follows.  The byte stream of a socket is a        *)
(* sequence of units; a record serialises to two body units followed by a  *)
(* newline unit, so a read can end inside a record or span several.  A     *)
(* backend output chunk carries the id of the prompt it answers and        *)
(* whether it contains a completion marker; a response buffer, and the     *)
(* content of a response, is the set of the origins of its chunks.         *)
(*                                                                         *)
(* The client classes PhindClient (src/phindClient.js, which owns a        *)
(* backend process of its own) and PhindSocketClient                       *)
(* (src/phindSocketClient.js, which talks to a server over the socket) are *)
(* modelled on their own in SpecClient; there a text is its length in      *)
(* characters, which is all the token accounting looks at.                 *)
(*                                                                         *)
(* SpecLife follows a server object from its constructor through start()   *)
(* (spawn, readiness sentinel, startup timeout, health check, listen) to   *)
(* stop(), run either by the guarded block at the end of its file or by a  *)
(* caller that imported the class.  SpecPure applies cleanResponse to      *)
(* texts, which there are sequences of the tokens cleanResponse looks for, *)
(* and connectToPhind of the multi-user application to what it can find on *)
(* the machine.                                                            *)
(***************************************************************************)
EXTENDS Integers, Sequences, FiniteSets, TLC

\* ---- bounds of the model ----
NumSockets == 2
MaxRecords == 3
MaxWireRecords == 2
MaxBadReads == 1
MaxCalls == 3
MaxClears == 1
MaxResponseLength == 5
MaxPromises == 3
MaxServerRecords == 2
MaxTextLength == 3
MaxSocketCalls == 2

Sockets == 1..NumSockets
\* the clock matters only at an accept: one millisecond value per accept suffices
Keys == 0..(NumSockets - 1)
Variants == {"process", "http"}

\* ---- records a client can write (src/modelServer.js:192-207) ----
RecordKinds == {"authenticate", "sendMessage", "clearContext", "getStatus", "bogus"}

ClientRecord(kind, mid) ==
  CASE kind = "authenticate" -> [type |-> "authenticate", userId |-> 1, username |-> "alice"]
    [] kind = "sendMessage" -> [type |-> "sendMessage", content |-> "hi", messageId |-> mid]
    [] OTHER -> [type |-> kind]

\* the identities an authenticate record can carry: 0 and "" are the falsy
\* values of JavaScript (a missing field behaves the same)
UserIds == {0, 1}
Usernames == {"", "alice"}

\* text that is not JSON, written by a client as one line
GarbledLine == [type |-> "garbled"]

\* everything a client can write as its next line
WireRecords(mid) ==
  {[type |-> "authenticate", userId |-> u, username |-> n] : u \in UserIds, n \in Usernames}
    \cup {ClientRecord(kind, mid) : kind \in RecordKinds \ {"authenticate"}}
    \cup {GarbledLine}

\* ---- the absent values ----
NoText == [owner |-> "none"]
NoApp == [client |-> "none"]
NoClient == [socket |-> 0]
NoRequest == [eid |-> 0]
NoKey == -1

VARIABLES
  variant,        \* which server class runs: "process" (ModelServer) or "http" (VLLMServer)
  now,            \* Date.now() at the latest accept, in milliseconds
  sockState,      \* per connection: "idle" (not yet accepted), "open", "closed"
  sockKey,        \* per connection: the clientId captured by its handlers
  wire,           \* per connection: the unread rest of a record that a read has split
  clients,        \* this.clients: clientId -> session
  requestQueue,   \* this.requestQueue
  currentRequest, \* this.currentRequest
  isConnected,    \* this.isConnected
  processState,   \* the backend child process: "running" or "closed"
  listeners,      \* 'data' listeners attached to process.stdout by sendToModel, in attach order
  timers,         \* entries whose sendToModel timeout timer is armed
  pending,        \* entries whose send promise (sendToModel / sendToVLLM) has not settled
  backendLog,     \* entries written to the backend's stdin / POSTed to the completion API, in order
  answered,       \* number of prompts the backend process has finished answering
  outbox,         \* per connection: records written to its socket by the server
  \* history variables
  enqueueLog,     \* every entry pushed on requestQueue, in push order (entry eid = its index)
  dispatchLog,    \* eids in the order processQueue took them off the queue
  settledLog,     \* per settled entry: its eid, the handler called ("response" / "error"), the
                  \* socket written to (0 if none), whether the connection that sent it was open
  consumed,       \* per connection: all units the server has read
  handled,        \* per connection: records decoded and passed to handleClientMessage
  written,        \* per connection: records the client has written
  badReads,       \* number of reads that ended inside a record or delivered several records
  \* the client classes, each run on its own against its backend or server
  clientKind,     \* the client class under study: "PhindClient", "PhindSocketClient" or "none"
  phindClient,    \* a PhindClient instance with its child process (src/phindClient.js)
  socketClient,   \* a PhindSocketClient instance with its socket (src/phindSocketClient.js)
  \* the life cycle of the server object: start(), stop() and what hosts it
  life,
  \* a call of cleanResponse: the class it belongs to, its argument, its result
  cleanCall,
  \* the multi-user application's connectToPhind(): what it finds, what it ends in
  app

vars == <<variant, now, sockState, sockKey, wire, clients, requestQueue, currentRequest,
          isConnected, processState, listeners, timers, pending, backendLog, answered,
          outbox, enqueueLog, dispatchLog, settledLog, consumed, handled, written, badReads,
          clientKind, phindClient, socketClient, life, cleanCall, app>>

serverVars == <<life, variant, now, sockState, sockKey, wire, clients, requestQueue, currentRequest,
                isConnected, processState, listeners, timers, pending, backendLog, answered,
                outbox, enqueueLog, dispatchLog, settledLog, consumed, handled, written, badReads>>

clientVars == <<clientKind, phindClient, socketClient>>

pureVars == <<cleanCall, app>>

\* ---- framing ----
NL == [rec |-> [type |-> "newline"], part |-> 0]

\* JSON.stringify(record) + '\n'
Serialise(rec) == <<[rec |-> rec, part |-> 1], [rec |-> rec, part |-> 2], NL>>

\* the line a client writes for rec: its serialisation, or text that is no JSON
Line(rec) ==
  IF rec = GarbledLine
    THEN <<[rec |-> rec, part |-> 1], [rec |-> rec, part |-> 1], NL>>
    ELSE Serialise(rec)

RECURSIVE TrimLeft(_)
TrimLeft(s) == IF s # <<>> /\ Head(s) = NL THEN TrimLeft(Tail(s)) ELSE s

RECURSIVE TrimRight(_)
TrimRight(s) == IF s # <<>> /\ s[Len(s)] = NL THEN TrimRight(SubSeq(s, 1, Len(s) - 1)) ELSE s

\* JSON.parse(data.toString()): the text must be exactly one JSON value,
\* surrounding whitespace allowed
ParseOk(data) ==
  LET body == TrimRight(TrimLeft(data))
  IN /\ Len(body) = 2
     /\ body[1].part = 1
     /\ body[2].part = 2
     /\ body[1].rec = body[2].rec

Parse(data) == TrimLeft(data)[1].rec

\* ---- the server state a chain of handlers and promise continuations works on ----
Here ==
  [clients |-> clients, requestQueue |-> requestQueue, currentRequest |-> currentRequest,
   listeners |-> listeners, timers |-> timers, pending |-> pending,
   backendLog |-> backendLog, outbox |-> outbox,
   enqueueLog |-> enqueueLog, dispatchLog |-> dispatchLog, settledLog |-> settledLog]

Commit(st) ==
  /\ clients' = st.clients
  /\ requestQueue' = st.requestQueue
  /\ currentRequest' = st.currentRequest
  /\ listeners' = st.listeners
  /\ timers' = st.timers
  /\ pending' = st.pending
  /\ backendLog' = st.backendLog
  /\ outbox' = st.outbox
  /\ enqueueLog' = st.enqueueLog
  /\ dispatchLog' = st.dispatchLog
  /\ settledLog' = st.settledLog

\* this.clients.set(clientId, {...}) in handleClientConnection
NewSession(socket) ==
  [socket |-> socket, userId |-> 0, username |-> "", context |-> <<>>, currentTokenCount |-> 0]

\* `${socket.remoteAddress}-${Date.now()}`: remoteAddress is undefined on a
\* Unix domain socket, so the key is a function of the clock alone
ClientIdAt(t) == t

\* sendToClient(clientId, message)
SendToClient(st, clientId, message) ==
  IF st.clients[clientId] # NoClient
    THEN [st EXCEPT !.outbox[st.clients[clientId].socket] = Append(@, message)]
    ELSE st

\* the socket sendToClient(clientId, ...) would write to, 0 if none
SocketOf(st, clientId) ==
  IF st.clients[clientId] # NoClient THEN st.clients[clientId].socket ELSE 0

\* the resolve handler of a queue entry (handleSendMessage)
ResolveEntry(st, req, response) ==
  SendToClient(
    [st EXCEPT !.settledLog = Append(@, [eid |-> req.eid, kind |-> "response",
                                         to |-> SocketOf(st, req.clientId),
                                         ownerOpen |-> sockState[req.sock] = "open"])],
    req.clientId,
    [type |-> "response", content |-> response, messageId |-> req.messageId, eid |-> req.eid])

\* the reject handler of a queue entry (handleSendMessage)
RejectEntry(st, req, error) ==
  SendToClient(
    [st EXCEPT !.settledLog = Append(@, [eid |-> req.eid, kind |-> "error",
                                         to |-> SocketOf(st, req.clientId),
                                         ownerOpen |-> sockState[req.sock] = "open"])],
    req.clientId,
    [type |-> "error", message |-> error, messageId |-> req.messageId, eid |-> req.eid])

NotConnectedError == IF variant = "process" THEN "Model not connected" ELSE "vLLM server not connected"

\* sendToModel(message), past the connection check: arm the timeout, attach
\* the stdout listener, write the prompt to stdin
SendToModel(st, req) ==
  [st EXCEPT !.pending = @ \cup {req.eid},
             !.timers = @ \cup {req.eid},
             !.listeners = Append(@, [eid |-> req.eid, responseBuffer |-> {}]),
             !.backendLog = Append(@, req.eid)]

\* sendToVLLM(message), past the connection check: POST /v1/completions
SendToVLLM(st, req) ==
  [st EXCEPT !.pending = @ \cup {req.eid},
             !.backendLog = Append(@, req.eid)]

\* processQueue with a send that does not look at isConnected
ProcessQueueUnchecked(st) ==
  IF st.requestQueue = <<>> THEN st
  ELSE
    LET req == Head(st.requestQueue)
        st1 == [st EXCEPT !.currentRequest = req,
                          !.requestQueue = Tail(@),
                          !.dispatchLog = Append(@, req.eid)]
    IN IF variant = "process" THEN SendToModel(st1, req) ELSE SendToVLLM(st1, req)

\* processQueue(): take the head, mark it current, call the backend send;
\* when the send throws at once (backend not connected) the catch and finally
\* blocks run as continuations of the same callback
RECURSIVE ProcessQueue(_)
ProcessQueue(st) ==
  IF st.requestQueue = <<>> THEN st
  ELSE
    LET req == Head(st.requestQueue)
        st1 == [st EXCEPT !.currentRequest = req,
                          !.requestQueue = Tail(@),
                          !.dispatchLog = Append(@, req.eid)]
    IN IF ~isConnected
         THEN LET st2 == [RejectEntry(st1, req, NotConnectedError) EXCEPT !.currentRequest = NoRequest]
              IN IF Len(st2.requestQueue) > 0 THEN ProcessQueue(st2) ELSE st2
         ELSE IF variant = "process" THEN SendToModel(st1, req) ELSE SendToVLLM(st1, req)

\* a finally block that clears currentRequest and does not look at the queue
FinallyNoDrain(st) == [st EXCEPT !.currentRequest = NoRequest]

\* the finally block of processQueue
Finally(st) ==
  LET st1 == [st EXCEPT !.currentRequest = NoRequest]
  IN IF Len(st1.requestQueue) > 0 THEN ProcessQueue(st1) ELSE st1

\* processQueue with the clean-up after the try block in place of a finally
\* block: a send that throws leaves currentRequest set and the queue undrained
SettledNoFinally(st, req, ok, value) ==
  LET st1 == [st EXCEPT !.pending = @ \ {req.eid}]
  IN IF ok THEN Finally(ResolveEntry(st1, req, value)) ELSE RejectEntry(st1, req, value)

\* the continuation of processQueue after its awaited send settled
Settled(st, req, ok, value) ==
  LET st1 == [st EXCEPT !.pending = @ \ {req.eid}]
  IN Finally(IF ok THEN ResolveEntry(st1, req, value) ELSE RejectEntry(st1, req, value))

\* handleSendMessage without the check of currentRequest
HandleSendMessageUnguarded(st, clientId, message, sock) ==
  LET req == [clientId |-> clientId, message |-> message.content,
              messageId |-> message.messageId,
              eid |-> Len(st.enqueueLog) + 1, sock |-> sock]
      st1 == [st EXCEPT !.requestQueue = Append(@, req), !.enqueueLog = Append(@, req)]
  IN ProcessQueue(st1)

\* handleSendMessage with unshift in place of push
HandleSendMessageUnshift(st, clientId, message, sock) ==
  LET req == [clientId |-> clientId, message |-> message.content,
              messageId |-> message.messageId,
              eid |-> Len(st.enqueueLog) + 1, sock |-> sock]
      st1 == [st EXCEPT !.requestQueue = <<req>> \o @, !.enqueueLog = Append(@, req)]
  IN IF st1.currentRequest = NoRequest THEN ProcessQueue(st1) ELSE st1

\* handleSendMessage(clientId, message)
HandleSendMessage(st, clientId, message, sock) ==
  LET req == [clientId |-> clientId, message |-> message.content,
              messageId |-> message.messageId,
              eid |-> Len(st.enqueueLog) + 1, sock |-> sock]
      st1 == [st EXCEPT !.requestQueue = Append(@, req), !.enqueueLog = Append(@, req)]
  IN IF st1.currentRequest = NoRequest THEN ProcessQueue(st1) ELSE st1

\* process.getuid() and process.env.USER of the server process
ProcessUid == 1000
EnvUser == "root"

\* authenticateClient(clientId, message): a falsy userId or username is
\* replaced by the server's own
AuthenticateClient(st, clientId, message) ==
  LET st1 == [st EXCEPT !.clients[clientId].userId =
                            IF message.userId # 0 THEN message.userId ELSE ProcessUid,
                        !.clients[clientId].username =
                            IF message.username # "" THEN message.username ELSE EnvUser]
  IN SendToClient(st1, clientId,
       [type |-> "authenticated", userId |-> st1.clients[clientId].userId,
        username |-> st1.clients[clientId].username])

\* clearClientContext(clientId)
ClearClientContext(st, clientId) ==
  SendToClient([st EXCEPT !.clients[clientId].context = <<>>,
                          !.clients[clientId].currentTokenCount = 0],
               clientId, [type |-> "contextCleared"])

\* sendStatus that counts the entry in flight as queued
SendStatusCountInFlight(st, clientId) ==
  SendToClient(st, clientId,
    [type |-> "status", connected |-> isConnected,
     activeClients |-> Cardinality({k \in Keys : st.clients[k] # NoClient}),
     queueLength |-> Len(st.requestQueue) + (IF st.currentRequest # NoRequest THEN 1 ELSE 0),
     currentRequest |-> IF st.currentRequest # NoRequest THEN st.currentRequest.clientId ELSE NoKey])

\* sendStatus(clientId)
SendStatus(st, clientId) ==
  SendToClient(st, clientId,
    [type |-> "status", connected |-> isConnected,
     activeClients |-> Cardinality({k \in Keys : st.clients[k] # NoClient}),
     queueLength |-> Len(st.requestQueue),
     currentRequest |-> IF st.currentRequest # NoRequest THEN st.currentRequest.clientId ELSE NoKey])

\* handleClientMessage(clientId, message)
HandleClientMessage(st, clientId, message, sock) ==
  IF st.clients[clientId] = NoClient THEN st
  ELSE CASE message.type = "authenticate" -> AuthenticateClient(st, clientId, message)
         [] message.type = "sendMessage" -> HandleSendMessage(st, clientId, message, sock)
         [] message.type = "clearContext" -> ClearClientContext(st, clientId)
         [] message.type = "getStatus" -> SendStatus(st, clientId)
         [] OTHER -> SendToClient(st, clientId, [type |-> "error", message |-> "Unknown message type"])

\* the socket 'data' handler installed by handleClientConnection
OnData(st, clientId, data, sock) ==
  IF ParseOk(data)
    THEN HandleClientMessage(st, clientId, Parse(data), sock)
    ELSE SendToClient(st, clientId, [type |-> "error", message |-> "Invalid message format"])

\* ---- token accounting of the clients (src/phindClient.js:33-58) ----
\* A text is modelled by its length in characters; a backend output buffer by
\* the number of characters of it that cleanResponse keeps.

\* Math.ceil(text.length / 4)
EstimateTokens(len) == (len + 3) \div 4

\* Math.round(num / den) for num >= 0, den > 0
Round(num, den) == (2 * num + den) \div (2 * den)

\* wouldExceedContext(message)
WouldExceedContext(currentTokenCount, len, maxInputTokens) ==
  currentTokenCount + EstimateTokens(len) > maxInputTokens

\* getContextUsage().usagePercent
UsagePercent(currentTokenCount, maxInputTokens) ==
  Round(currentTokenCount * 100, maxInputTokens)

\* the configuration a PhindClient is constructed with by default
DefaultConfig == [contextSize |-> 8192, maxTokens |-> 2048]

\* this.config.contextSize - this.config.maxTokens
MaxInputTokens(config) == config.contextSize - config.maxTokens

\* responsePromise = null
NoPromise == 0

\* no sendMessage call has been made yet
NoCall == [outcome |-> "none"]

\* ---- PhindClient (src/phindClient.js) ----

\* the fields set by the constructor; process-side: the 'data' listeners
\* attached to process.stdout, the armed timers, what was written to stdin
NewPhindClient(config) ==
  [config |-> config, isConnected |-> FALSE, currentTokenCount |-> 0,
   responsePromise |-> NoPromise, hasSentSystemPrompt |-> FALSE,
   process |-> "null",  \* this.process: "null", "running" or "closed"
   listeners |-> <<>>, timers |-> {}, stdin |-> <<>>,
   epochStarts |-> {0}, \* history: the length of stdin at construction and at each clearContext
   promises |-> <<>>,   \* per promise returned by sendMessage: "pending", "resolved", "rejected"
   calls |-> 0,         \* number of sendMessage calls made
   clears |-> 0,        \* number of clearContext calls made
   lastCall |-> NoCall] \* the latest sendMessage call: its input, the state it met, its outcome

\* what a sendMessage call met and did
CallRecord(c, len, budget, outcome, wrote) ==
  [len |-> len, tokens |-> c.currentTokenCount, budget |-> budget,
   isConnected |-> c.isConnected, waiting |-> c.responsePromise # NoPromise,
   outcome |-> outcome, wrote |-> wrote]

\* PhindClient.sendMessage(message)
PhindSendMessage(c, len) ==
  LET budget == MaxInputTokens(c.config)
      called == [c EXCEPT !.calls = @ + 1]
      refused(outcome) == [called EXCEPT !.lastCall = CallRecord(c, len, budget, outcome, 0)]
  IN IF ~c.isConnected THEN refused("notConnected")
     ELSE IF c.responsePromise # NoPromise THEN refused("alreadyWaiting")
     ELSE IF /\ WouldExceedContext(c.currentTokenCount, len, budget)
             /\ UsagePercent(c.currentTokenCount, budget) > 90
       THEN refused("contextLimit")
     ELSE
       LET rid == Len(c.promises) + 1
           prompt == IF c.hasSentSystemPrompt THEN <<>> ELSE <<[kind |-> "system"]>>
           text == <<[kind |-> "message", rid |-> rid]>>
       IN [called EXCEPT !.responsePromise = rid,
                         !.promises = Append(@, "pending"),
                         !.timers = @ \cup {rid},
                         !.listeners = Append(@, [rid |-> rid, message |-> len, responseBuffer |-> 0]),
                         !.stdin = @ \o prompt \o text,
                         !.hasSentSystemPrompt = TRUE,
                         !.lastCall = CallRecord(c, len, budget, "dispatched", Len(prompt) + 1)]

\* the completion branch of dataHandler, for the listeners completed by one
\* chunk, in attach order
RECURSIVE PhindCompleted(_, _)
PhindCompleted(c, done) ==
  IF done = <<>> THEN c
  ELSE LET h == Head(done)
       IN PhindCompleted(
            [c EXCEPT !.currentTokenCount =
                          @ + EstimateTokens(h.message) + EstimateTokens(h.responseBuffer),
                      !.responsePromise = NoPromise,
                      !.promises[h.rid] = IF @ = "pending" THEN "resolved" ELSE @],
            Tail(done))

\* dataHandler of PhindClient.sendMessage, for every attached listener
PhindDataHandler(c, chunk) ==
  LET fed == [i \in 1..Len(c.listeners) |->
                [c.listeners[i] EXCEPT !.responseBuffer = @ + chunk.size]]
  IN IF chunk.marker
       THEN PhindCompleted(
              [c EXCEPT !.listeners = <<>>,
                        !.timers = @ \ {fed[i].rid : i \in 1..Len(fed)}],
              fed)
       ELSE [c EXCEPT !.listeners = fed]

\* the setTimeout callback of PhindClient.sendMessage (isComplete is false
\* while the timer is armed)
PhindOnTimeout(c, rid) ==
  [c EXCEPT !.timers = @ \ {rid},
            !.responsePromise = NoPromise,
            !.promises[rid] = IF @ = "pending" THEN "rejected" ELSE @]

\* clearContext that resets the system prompt flag and leaves the counter
PhindClearContextKeepCount(c) ==
  [c EXCEPT !.hasSentSystemPrompt = FALSE, !.clears = @ + 1,
            !.epochStarts = @ \cup {Len(c.stdin)}]

\* clearContext that resets the counter and leaves the system prompt flag
PhindClearContextKeepPrompt(c) ==
  [c EXCEPT !.currentTokenCount = 0, !.clears = @ + 1,
            !.epochStarts = @ \cup {Len(c.stdin)}]

\* PhindClient.clearContext()
PhindClearContext(c) ==
  [c EXCEPT !.currentTokenCount = 0, !.hasSentSystemPrompt = FALSE, !.clears = @ + 1,
            !.epochStarts = @ \cup {Len(c.stdin)}]

\* ---- PhindSocketClient (src/phindSocketClient.js) ----

\* 16384 - 1024, the budget PhindSocketClient computes
SocketMaxInputTokens == 16384 - 1024

\* the context size and generation length of the servers' defaults, which the
\* constant above repeats
ServerDefaultConfig == [contextSize |-> 16384, maxTokens |-> 1024]

NewSocketClient ==
  [config |-> ServerDefaultConfig,  \* this.config: the constructor copies every field given
   isConnected |-> FALSE, currentTokenCount |-> 0, responsePromise |-> NoPromise,
   messageId |-> 0, timers |-> {}, socket |-> "null",
   sent |-> <<>>,       \* records written to the socket
   wire |-> <<>>,       \* the unread rest of a line of the server that a read has split
   received |-> <<>>,   \* history: lines the server has written, for reads of any shape
   handledLog |-> <<>>, \* history: records of those lines passed to the switch
   promises |-> <<>>,   \* per promise created by sendMessage: "pending", "resolved", "rejected"
   userPromises |-> {},  \* history: the promises returned to the application by sendMessage(text)
   lastSettled |-> [pid |-> NoPromise],  \* history: the promise a server record settled last,
                                         \* and the messageId of that record (0 if it has none)
   calls |-> 0, clears |-> 0, lastCall |-> NoCall]

\* the argument of sendMessage: a text, or a record object
TextMessage(len) == [isText |-> TRUE, len |-> len]
RecordMessage(record) == [isText |-> FALSE, record |-> record]

\* wouldExceedContext(message): for a record object text.length is undefined,
\* the estimate is NaN and the comparison is false
SocketWouldExceedContext(c, message) ==
  /\ message.isText
  /\ WouldExceedContext(c.currentTokenCount, message.len, SocketMaxInputTokens)

\* PhindSocketClient.sendMessage(message).  The class body defines sendMessage
\* twice; the second definition (async, lines 147-190) replaces the first
\* (lines 139-145, the one that writes to the socket), so the call inside
\* the promise executor enters this method again, with a record object
RECURSIVE SocketSendMessage(_, _)
SocketSendMessage(c, message) ==
  IF ~c.isConnected \/ c.socket = "null" THEN [c |-> c, outcome |-> "notConnected"]
  ELSE IF c.responsePromise # NoPromise THEN [c |-> c, outcome |-> "alreadyWaiting"]
  ELSE IF /\ SocketWouldExceedContext(c, message)
          /\ UsagePercent(c.currentTokenCount, SocketMaxInputTokens) > 90
    THEN [c |-> c, outcome |-> "contextLimit"]
  ELSE
    LET pid == Len(c.promises) + 1
        c1 == [c EXCEPT !.responsePromise = pid,
                        !.promises = Append(@, "pending"),
                        !.messageId = @ + 1]
        inner == SocketSendMessage(c1,
                   RecordMessage([type |-> "sendMessage", content |-> message,
                                  messageId |-> c1.messageId]))
    IN [c |-> [inner.c EXCEPT !.timers = @ \cup {pid}], outcome |-> "dispatched"]

\* a sendMessage(text) call made by the application
SocketUserSend(c, len) ==
  LET r == SocketSendMessage(c, TextMessage(len))
  IN [r.c EXCEPT !.calls = @ + 1,
                 !.userPromises = IF r.outcome = "dispatched"
                                    THEN @ \cup {Len(r.c.promises)} ELSE @,
                 !.lastCall = CallRecord(c, len, SocketMaxInputTokens, r.outcome,
                                         Len(r.c.sent) - Len(c.sent))]

\* the setTimeout callback of sendMessage
SocketOnTimeout(c, pid) ==
  LET c1 == [c EXCEPT !.timers = @ \ {pid}]
  IN IF c1.responsePromise # NoPromise
       THEN [c1 EXCEPT !.responsePromise = NoPromise,
                       !.promises[pid] = IF @ = "pending" THEN "rejected" ELSE @]
       ELSE c1

\* message.messageId, 0 standing for undefined
MessageIdOf(message) ==
  IF "messageId" \in DOMAIN message THEN message.messageId ELSE 0

\* the promise in the slot is settled for the record message
SocketSettle(c, message, state) ==
  LET pid == c.responsePromise
  IN [c EXCEPT !.lastSettled = IF c.promises[pid] = "pending"
                                 THEN [pid |-> pid, messageId |-> MessageIdOf(message)] ELSE @,
               !.promises[pid] = IF @ = "pending" THEN state ELSE @,
               !.responsePromise = NoPromise]

\* the switch of handleServerMessage for one record, with handleResponse and
\* handleError
SocketHandleServerMessage(c, message) ==
  CASE message.type = "response" /\ c.responsePromise # NoPromise ->
         SocketSettle(c, message, "resolved")
    [] message.type = "error" /\ c.responsePromise # NoPromise ->
         SocketSettle(c, message, "rejected")
    [] message.type = "contextCleared" -> [c EXCEPT !.currentTokenCount = 0]
    [] OTHER -> c

\* data.toString().split('\n').filter(line => line.trim()): the non-blank
\* lines of a read, line being the part of the current line already seen
RECURSIVE SplitLines(_, _)
SplitLines(data, line) ==
  IF data = <<>> THEN (IF line = <<>> THEN <<>> ELSE <<line>>)
  ELSE IF Head(data) = NL
    THEN (IF line = <<>> THEN <<>> ELSE <<line>>) \o SplitLines(Tail(data), <<>>)
  ELSE SplitLines(Tail(data), Append(line, Head(data)))

\* the loop over the lines in handleServerMessage.  The try block encloses
\* the whole loop: when JSON.parse throws the catch block logs the error and
\* the lines behind it are not looked at
RECURSIVE SocketHandleLines(_, _)
SocketHandleLines(c, lines) ==
  IF lines = <<>> THEN c
  ELSE IF ParseOk(Head(lines))
    THEN SocketHandleLines(SocketHandleServerMessage(c, Parse(Head(lines))), Tail(lines))
  ELSE c

\* the records that loop passes to the switch
RECURSIVE HandledLines(_)
HandledLines(lines) ==
  IF lines = <<>> THEN <<>>
  ELSE IF ParseOk(Head(lines)) THEN <<Parse(Head(lines))>> \o HandledLines(Tail(lines))
  ELSE <<>>

\* handleServerMessage(data), the socket 'data' handler
SocketOnData(c, data) == SocketHandleLines(c, SplitLines(data, <<>>))

\* the socket 'connect' handler: isConnected = true, then authenticate()
SocketOnConnect(c) ==
  SocketSendMessage([c EXCEPT !.isConnected = TRUE],
                    RecordMessage([type |-> "authenticate"])).c

\* PhindSocketClient.clearContext()
SocketClearContext(c) ==
  SocketSendMessage([c EXCEPT !.currentTokenCount = 0, !.clears = @ + 1],
                    RecordMessage([type |-> "clearContext"])).c

\* PhindSocketClient.disconnect(): the socket is destroyed and the slot is
\* emptied; neither resolve nor reject of the pending promise is called
SocketDisconnectClient(c) ==
  [c EXCEPT !.socket = "null", !.isConnected = FALSE, !.responsePromise = NoPromise]

\* PhindSocketClient.getStatus()
SocketGetStatus(c) == SocketSendMessage(c, RecordMessage([type |-> "getStatus"])).c

\* ---- cleanResponse (src/modelServer.js, src/phindClient.js) ----

\* A text is a sequence of tokens.  Every literal the regular expressions and
\* the line filter of cleanResponse look for is a token or two adjacent
\* tokens, and '>' is the last character of every token it occurs in, so a
\* match begins and ends between tokens.
ImStart == "<|im_start|>"
ImEnd == "<|im_end|>"
Roles == {"system", "user", "assistant"}
Labels == {"llama_simple_chat", "User:", "Assistant:"}
PromptHead == "You are an expert coding assistant"
PromptTail == "Always aim to be helpful, thorough, and educational in your responses."
Blanks == {" ", "\n"}
Tokens == {ImStart, ImEnd, ">", "x", PromptHead, PromptTail} \cup Roles \cup Labels \cup Blanks

\* the tokens that end with '>'
EndsWithGt == {ImStart, ImEnd, ">"}

\* the literal lit occurs in s at position i
StartsAt(s, i, lit) ==
  /\ i + Len(lit) - 1 <= Len(s)
  /\ SubSeq(s, i, i + Len(lit) - 1) = lit

\* .*? followed by a literal that ends one of the tokens in ends: the position
\* of the first such token at or behind j, 0 if there is none; without the s
\* flag the dot does not match a newline
RECURSIVE FindEnd(_, _, _, _)
FindEnd(s, j, ends, dotAll) ==
  IF j > Len(s) THEN 0
  ELSE IF s[j] \in ends THEN j
  ELSE IF ~dotAll /\ s[j] = "\n" THEN 0
  ELSE FindEnd(s, j + 1, ends, dotAll)

\* s.replace(/lit.*?end/g, '') from position i on: matches are looked for from
\* left to right and do not overlap
RECURSIVE ReplaceFrom(_, _, _, _, _)
ReplaceFrom(s, i, lit, ends, dotAll) ==
  IF i > Len(s) THEN <<>>
  ELSE LET j == IF StartsAt(s, i, lit) THEN FindEnd(s, i + Len(lit), ends, dotAll) ELSE 0
       IN IF j # 0 THEN ReplaceFrom(s, j + 1, lit, ends, dotAll)
          ELSE <<s[i]>> \o ReplaceFrom(s, i + 1, lit, ends, dotAll)

\* s.replace(/^head.*?tail/gs, '')
ReplaceLeading(s, head, tail) ==
  LET j == IF StartsAt(s, 1, <<head>>) THEN FindEnd(s, 2, {tail}, TRUE) ELSE 0
  IN IF j # 0 THEN SubSeq(s, j + 1, Len(s)) ELSE s

\* s.trim()
RECURSIVE TrimText(_)
TrimText(s) ==
  IF s = <<>> THEN s
  ELSE IF Head(s) \in Blanks THEN TrimText(Tail(s))
  ELSE IF s[Len(s)] \in Blanks THEN TrimText(SubSeq(s, 1, Len(s) - 1))
  ELSE s

\* s.split('\n'), line being the part of the current line already seen
RECURSIVE SplitText(_, _)
SplitText(s, line) ==
  IF s = <<>> THEN <<line>>
  ELSE IF Head(s) = "\n" THEN <<line>> \o SplitText(Tail(s), <<>>)
  ELSE SplitText(Tail(s), Append(line, Head(s)))

\* lines.join('\n')
RECURSIVE JoinText(_)
JoinText(lines) ==
  IF lines = <<>> THEN <<>>
  ELSE IF Len(lines) = 1 THEN Head(lines)
  ELSE Head(lines) \o <<"\n">> \o JoinText(Tail(lines))

\* the loop of cleanResponse over the lines: userLines from the given lines
\* on, foundUserContent being the flag of the loop
RECURSIVE UserLines(_, _)
UserLines(lines, foundUserContent) ==
  IF lines = <<>> THEN <<>>
  ELSE LET line == Head(lines)
           nonBlank == TrimText(line) # <<>>
           labelled == \E i \in 1..Len(line) : line[i] \in Labels
       IN IF nonBlank /\ ~labelled THEN <<line>> \o UserLines(Tail(lines), TRUE)
          ELSE IF foundUserContent /\ nonBlank THEN <<>>
          ELSE UserLines(Tail(lines), foundUserContent)

\* the classes that define cleanResponse
Cleaners == {"ModelServer", "PhindClient"}

\* the chain of replace calls and the trim at the head of cleanResponse
StripMarkers(owner, response) ==
  LET r1 == ReplaceFrom(response, 1, <<ImStart, "system">>, {ImEnd}, TRUE)
      r2 == ReplaceFrom(r1, 1, <<ImStart, "user">>, {ImEnd}, TRUE)
      r3 == ReplaceFrom(r2, 1, <<ImStart, "assistant">>, {ImEnd}, TRUE)
      r4 == ReplaceFrom(r3, 1, <<"llama_simple_chat">>, EndsWithGt, FALSE)
      r5 == ReplaceFrom(r4, 1, <<"User:">>, EndsWithGt, FALSE)
      r6 == ReplaceFrom(r5, 1, <<"Assistant:">>, EndsWithGt, FALSE)
      r7 == SelectSeq(r6, LAMBDA t : t # ImEnd)
      r8 == IF owner = "PhindClient" THEN ReplaceLeading(r7, PromptHead, PromptTail) ELSE r7
  IN TrimText(r8)

\* cleanResponse(response) of the class owner
CleanResponse(owner, response) ==
  LET cleaned == StripMarkers(owner, response)
  IN TrimText(JoinText(UserLines(SplitText(cleaned, <<>>), FALSE)))

\* ---- connectToPhind of the multi-user application (src/unnamed/part_000) ----

\* what connectToPhind meets: whether the socket file exists, whether a server
\* listens on it, config.server.enabled, whether the llama.cpp binary starts
AppEnvironments ==
  {[socketFile |-> f, serverRunning |-> r, enabled |-> e, backend |-> b,
    client |-> "none", outcome |-> "none"] :
     f \in BOOLEAN, r \in BOOLEAN, e \in BOOLEAN, b \in BOOLEAN}

\* checkModelServer()
CheckModelServer(a) == a.socketFile

\* connectToPhind(): the client it constructs, and whether its connect()
\* resolves or rejects; a rejection ends in process.exit(1)
ConnectToPhind(a) ==
  IF CheckModelServer(a) /\ a.enabled
    THEN [a EXCEPT !.client = "PhindSocketClient",
                   !.outcome = IF a.serverRunning THEN "connected" ELSE "exit1"]
    ELSE [a EXCEPT !.client = "PhindClient",
                   !.outcome = IF a.backend THEN "connected" ELSE "exit1"]

\* ---- the life cycle of the server object ----

\* the values config.maxConcurrentUsers is constructed with: the default and a
\* configured one
DefaultMaxConcurrentUsers == 10
MaxConcurrentUsersValues == {1, DefaultMaxConcurrentUsers}

\* how the class is run: "script" (node modelServer.js: the guarded block at
\* the end of the file calls start() and exits the process when it rejects or
\* after stop()), "module" (imported, its caller handles the promise of start())
Hosts == {"script", "module"}

\* the object after its constructor
NewLife(host, maxConcurrentUsers) ==
  [host |-> host,
   maxConcurrentUsers |-> maxConcurrentUsers,
   phase |-> "constructed",  \* start(): "constructed", "connecting", "waiting" (for the
                             \* health check), "binding", "started", "failed"
   isReady |-> FALSE,        \* the isReady flag of the startup promise
   startTimer |-> FALSE,     \* the startup timeout timer is armed
   spawns |-> 0,             \* calls of spawn()
   server |-> "null",        \* this.server: "null", "binding", "listening", "error", "closed"
   emitted |-> <<>>,         \* events emitted by the object
   readyLog |-> <<>>,        \* per change of isConnected to true: whether startup had failed
                             \* or the process had closed before
   stopped |-> FALSE,        \* stop() has been called
   stoppedIn |-> "none",     \* the phase stop() was called in
   killed |-> FALSE,         \* stop() has signalled the backend process
   exited |-> "no"]          \* process.exit(code) of the server process: "no", "0", "1"

\* the object once start() has resolved
StartedLife ==
  [NewLife("script", DefaultMaxConcurrentUsers) EXCEPT
     !.phase = "started", !.isReady = TRUE, !.spawns = 1, !.server = "listening"]

\* ---- initial state: the server has started, the backend is ready ----
InitServer ==
  /\ variant \in Variants
  /\ now = 0
  /\ sockState = [s \in Sockets |-> "idle"]
  /\ sockKey = [s \in Sockets |-> NoKey]
  /\ wire = [s \in Sockets |-> <<>>]
  /\ clients = [k \in Keys |-> NoClient]
  /\ requestQueue = <<>>
  /\ currentRequest = NoRequest
  /\ isConnected = TRUE
  /\ processState = "running"
  /\ listeners = <<>>
  /\ timers = {}
  /\ pending = {}
  /\ backendLog = <<>>
  /\ answered = 0
  /\ outbox = [s \in Sockets |-> <<>>]
  /\ enqueueLog = <<>>
  /\ dispatchLog = <<>>
  /\ settledLog = <<>>
  /\ consumed = [s \in Sockets |-> <<>>]
  /\ handled = [s \in Sockets |-> <<>>]
  /\ written = [s \in Sockets |-> <<>>]
  /\ badReads = 0
  /\ life = StartedLife

Init ==
  /\ InitServer
  /\ cleanCall = NoText
  /\ app = NoApp
  /\ clientKind = "none"
  /\ phindClient = NewPhindClient(DefaultConfig)
  /\ socketClient = NewSocketClient

RECURSIVE SumLen(_, _)
SumLen(f, n) == IF n = 0 THEN 0 ELSE Len(f[n]) + SumLen(f, n - 1)

\* records written by all clients so far
TotalWritten == SumLen(written, NumSockets)

\* ---- actions ----

\* handleClientConnection(socket): the listener accepts a connection, elapsed
\* milliseconds after the previous accept (0: within the same millisecond).
\* Connections are numbered in the order they are accepted.
Connect(s, elapsed) ==
  /\ life.server = "listening"
  /\ sockState[s] = "idle"
  /\ \A t \in Sockets : t < s => sockState[t] # "idle"
  /\ s = 1 => elapsed = 0
  /\ now + elapsed \in Keys
  /\ now' = now + elapsed
  /\ LET clientId == ClientIdAt(now + elapsed)
         st1 == [Here EXCEPT !.clients[clientId] = NewSession(s)]
         st2 == SendToClient(st1, clientId,
                  [type |-> "connected", message |-> "Connected to QAterm Model Server"])
     IN /\ Commit(st2)
        /\ sockState' = [sockState EXCEPT ![s] = "open"]
        /\ sockKey' = [sockKey EXCEPT ![s] = clientId]
  /\ UNCHANGED <<clientVars, pureVars>>
  /\ UNCHANGED <<life, variant, wire, isConnected, processState, answered,
                 consumed, handled, written, badReads>>

\* the sequences of count records of the given kinds a client can write next
RECURSIVE RecordSeqs(_, _)
RecordSeqs(from, count) ==
  IF count = 0 THEN {<<>>}
  ELSE {<<rec>> \o rest :
          rec \in WireRecords(from), rest \in RecordSeqs(from + 1, count - 1)}

RECURSIVE SerialiseAll(_)
SerialiseAll(recs) ==
  IF recs = <<>> THEN <<>> ELSE Line(Head(recs)) \o SerialiseAll(Tail(recs))

\* the number of newline units in data
RECURSIVE Newlines(_)
Newlines(data) ==
  IF data = <<>> THEN 0 ELSE (IF Head(data) = NL THEN 1 ELSE 0) + Newlines(Tail(data))

\* a read that ends inside a record or delivers more than one record
Irregular(data) == data[Len(data)] # NL \/ Newlines(data) > 1

\* socket 'data': the client has written the records recs behind what is
\* still unread of its stream, and one read delivers the next n units of it
Read(s, recs, n) ==
  LET stream == wire[s] \o SerialiseAll(recs)
      data == SubSeq(stream, 1, n)
  IN /\ sockState[s] = "open"
     /\ n \in 1..Len(stream)
     /\ recs # <<>> => n > Len(stream) - 3
     /\ badReads' = IF Irregular(data) THEN badReads + 1 ELSE badReads
     /\ Commit(OnData(Here, sockKey[s], data, s))
     /\ wire' = [wire EXCEPT ![s] = SubSeq(stream, n + 1, Len(stream))]
     /\ written' = [written EXCEPT ![s] = @ \o recs]
     /\ consumed' = [consumed EXCEPT ![s] = @ \o data]
     /\ handled' = [handled EXCEPT ![s] =
                      IF ParseOk(data) THEN Append(@, Parse(data)) ELSE @]
     /\ UNCHANGED <<clientVars, pureVars>>
     /\ UNCHANGED <<life, variant, now, sockState, sockKey, isConnected, processState, answered>>

\* one read delivers exactly one sendMessage record
SocketData(s) ==
  /\ TotalWritten < MaxRecords
  /\ Read(s, <<ClientRecord("sendMessage", Len(written[s]) + 1)>>, 3)

\* one read delivers any part of the stream: the rest of a split record, then
\* count new records of any kind, the last of them possibly cut short
SocketDataAny(s, count, n) ==
  /\ TotalWritten + count <= MaxWireRecords
  /\ \E recs \in RecordSeqs(Len(written[s]) + 1, count) :
       /\ Read(s, recs, n)
       /\ badReads' <= MaxBadReads

\* socket 'close': this.clients.delete(clientId)
SocketClose(s) ==
  /\ sockState[s] = "open"
  /\ sockState' = [sockState EXCEPT ![s] = "closed"]
  /\ clients' = [clients EXCEPT ![sockKey[s]] = NoClient]
  /\ wire' = [wire EXCEPT ![s] = <<>>]
  /\ UNCHANGED <<clientVars, pureVars>>
  /\ UNCHANGED <<life, variant, now, sockKey, requestQueue, currentRequest,
                 isConnected, processState, listeners, timers, pending, backendLog, answered,
                 outbox, enqueueLog, dispatchLog, settledLog, consumed, handled, written, badReads>>

\* socket 'error': this.clients.delete(clientId); the stream is destroyed and
\* its 'close' handler runs on the next tick, before any other I/O callback,
\* and deletes the same key again
SocketError(s) ==
  /\ sockState[s] = "open"
  /\ sockState' = [sockState EXCEPT ![s] = "closed"]
  /\ clients' = [clients EXCEPT ![sockKey[s]] = NoClient]
  /\ wire' = [wire EXCEPT ![s] = <<>>]
  /\ UNCHANGED <<clientVars, pureVars>>
  /\ UNCHANGED <<life, variant, now, sockKey, requestQueue, currentRequest,
                 isConnected, processState, listeners, timers, pending, backendLog, answered,
                 outbox, enqueueLog, dispatchLog, settledLog, consumed, handled, written, badReads>>

\* the entry a listener, timer or HTTP request belongs to (held by its closure)
EntryOf(eid) == enqueueLog[eid]

\* the continuations of the sends resolved by one stdout 'data' event, in
\* listener order; a listener whose promise was already rejected resolves nothing
RECURSIVE ResolveCompleted(_, _)
ResolveCompleted(st, done) ==
  IF done = <<>> THEN st
  ELSE LET h == Head(done)
       IN ResolveCompleted(
            IF h.eid \in st.pending
              THEN Settled(st, EntryOf(h.eid), TRUE, h.responseBuffer)
              ELSE st,
            Tail(done))

\* dataHandler of sendToModel, for every attached listener: append the chunk;
\* on a completion marker clear the timer, detach and resolve
OnStdout(st, chunk) ==
  LET fed == [i \in 1..Len(st.listeners) |->
                [st.listeners[i] EXCEPT !.responseBuffer = @ \cup {chunk.origin}]]
  IN IF chunk.marker
       THEN ResolveCompleted(
              [st EXCEPT !.listeners = <<>>,
                         !.timers = @ \ {fed[i].eid : i \in 1..Len(fed)}],
              fed)
       ELSE [st EXCEPT !.listeners = fed]

\* process.stdout 'data': the backend process emits a chunk of its answer to
\* the oldest prompt it has not finished
BackendOutput(marker) ==
  /\ life.exited = "no"
  /\ variant = "process"
  /\ processState = "running"
  /\ answered < Len(backendLog)
  /\ Commit(OnStdout(Here, [origin |-> backendLog[answered + 1], marker |-> marker]))
  /\ answered' = IF marker THEN answered + 1 ELSE answered
  /\ UNCHANGED <<clientVars, pureVars>>
  /\ UNCHANGED <<life, variant, now, sockState, sockKey, wire, isConnected, processState,
                 consumed, handled, written, badReads>>

\* the setTimeout callback of sendToModel
OnTimeout(st, eid) ==
  LET st1 == [st EXCEPT !.timers = @ \ {eid}]
  IN IF eid \in st1.pending
       THEN Settled(st1, EntryOf(eid), FALSE, "Response timeout")
       ELSE st1

Timeout(eid) ==
  /\ life.exited = "no"
  /\ eid \in timers
  /\ Commit(OnTimeout(Here, eid))
  /\ UNCHANGED <<clientVars, pureVars>>
  /\ UNCHANGED <<life, variant, now, sockState, sockKey, wire, isConnected, processState, answered,
                 consumed, handled, written, badReads>>

\* the outcome of fetch() and response.json() in sendToVLLM
HttpOutcomes == {"ok", "status", "nochoices"}

OnHttpReply(st, eid, outcome) ==
  CASE outcome = "ok" -> Settled(st, EntryOf(eid), TRUE, {eid})
    [] outcome = "status" -> Settled(st, EntryOf(eid), FALSE, "vLLM API error")
    [] OTHER -> Settled(st, EntryOf(eid), FALSE, "No response from vLLM")

HttpReply(eid, outcome) ==
  /\ life.exited = "no"
  /\ variant = "http"
  /\ eid \in pending
  /\ Commit(OnHttpReply(Here, eid, outcome))
  /\ UNCHANGED <<clientVars, pureVars>>
  /\ UNCHANGED <<life, variant, now, sockState, sockKey, wire, isConnected, processState, answered,
                 consumed, handled, written, badReads>>

\* process 'close': the backend process has exited
BackendExit ==
  /\ life.exited = "no"
  /\ processState = "running"
  /\ processState' = "closed"
  /\ isConnected' = FALSE
  /\ life' = [life EXCEPT !.emitted = Append(@, "disconnected")]
  /\ UNCHANGED <<clientVars, pureVars>>
  /\ UNCHANGED <<variant, now, sockState, sockKey, wire, clients, requestQueue, currentRequest,
                 listeners, timers, pending, backendLog, answered,
                 outbox, enqueueLog, dispatchLog, settledLog, consumed, handled, written, badReads>>

Backend ==
  \/ \E marker \in BOOLEAN : BackendOutput(marker)
  \/ \E eid \in 1..MaxRecords : Timeout(eid)
  \/ \E eid \in 1..MaxRecords, outcome \in HttpOutcomes : HttpReply(eid, outcome)
  \/ BackendExit

Connections ==
  \/ \E s \in Sockets, elapsed \in {0, 1} : Connect(s, elapsed)
  \/ \E s \in Sockets : SocketClose(s)
  \/ \E s \in Sockets : SocketError(s)

\* clients that send whole sendMessage records
Next ==
  \/ Connections
  \/ \E s \in Sockets : SocketData(s)
  \/ Backend

Spec == Init /\ [][Next]_vars

\* clients that send records of every kind over a stream whose reads need not
\* respect record boundaries
NextWire ==
  \/ Connections
  \/ \E s \in Sockets, count \in 0..MaxWireRecords, n \in 1..(3 * MaxWireRecords) :
       SocketDataAny(s, count, n)
  \/ Backend

SpecWire == Init /\ [][NextWire]_vars

\* the same with timers that fire: a timer armed by setTimeout runs once its
\* delay has passed.  Nothing makes a client write, the backend print, the
\* completion API answer or a process exit
SpecFair == Spec /\ \A eid \in 1..MaxRecords : WF_vars(Timeout(eid))

\* one read delivers exactly one getStatus record
StatusData(s) ==
  /\ TotalWritten < MaxRecords
  /\ \A i \in 1..Len(written[s]) : written[s][i].type # "getStatus"
  /\ Read(s, <<ClientRecord("getStatus", Len(written[s]) + 1)>>, 3)

\* clients that send whole sendMessage records and ask for the status
NextStatus ==
  \/ Next
  \/ \E s \in Sockets : StatusData(s)

SpecStatus == Init /\ [][NextStatus]_vars

\* ---- the server from its construction to stop() ----

InitLife ==
  /\ variant \in Variants
  /\ now = 0
  /\ sockState = [s \in Sockets |-> "idle"]
  /\ sockKey = [s \in Sockets |-> NoKey]
  /\ wire = [s \in Sockets |-> <<>>]
  /\ clients = [k \in Keys |-> NoClient]
  /\ requestQueue = <<>>
  /\ currentRequest = NoRequest
  /\ isConnected = FALSE
  /\ processState = "null"
  /\ listeners = <<>>
  /\ timers = {}
  /\ pending = {}
  /\ backendLog = <<>>
  /\ answered = 0
  /\ outbox = [s \in Sockets |-> <<>>]
  /\ enqueueLog = <<>>
  /\ dispatchLog = <<>>
  /\ settledLog = <<>>
  /\ consumed = [s \in Sockets |-> <<>>]
  /\ handled = [s \in Sockets |-> <<>>]
  /\ written = [s \in Sockets |-> <<>>]
  /\ badReads = 0
  /\ life \in {NewLife(host, m) : host \in Hosts, m \in MaxConcurrentUsersValues}
  /\ clientKind = "none"
  /\ phindClient = NewPhindClient(DefaultConfig)
  /\ socketClient = NewSocketClient
  /\ cleanCall = NoText
  /\ app = NoApp

\* what the life cycle actions leave alone
sessionVars == <<now, sockKey, requestQueue, currentRequest, listeners, timers, pending,
                 backendLog, answered, outbox, enqueueLog, dispatchLog, settledLog,
                 consumed, handled, written, badReads>>

\* the promise of start() rejects: under node modelServer.js the catch
\* handler of the start() call exits the process
StartRejected(l) ==
  IF l.phase \in {"connecting", "waiting"}
    THEN [l EXCEPT !.phase = "failed", !.exited = IF l.host = "script" THEN "1" ELSE @]
    ELSE l

\* start() up to its first await: connectToModel() / startVLLMServer() spawns
\* the backend process and arms the startup timeout
Start ==
  /\ life.exited = "no"
  /\ life.phase = "constructed"
  /\ ~life.stopped
  /\ life' = [life EXCEPT !.phase = "connecting", !.spawns = @ + 1, !.startTimer = TRUE]
  /\ processState' = "running"
  /\ UNCHANGED <<variant, isConnected, sockState, wire, clients, sessionVars, clientVars, pureVars>>

\* process.stdout 'data' with a readiness sentinel in the buffer, seen by the
\* handler connectToModel() / startVLLMServer() attached: the handler stays
\* attached for the life of the process and looks at isReady alone.  When
\* the promise is still pending start() goes on: to startSocketServer() in
\* the process variant, to waitForVLLMReady() in the HTTP variant
BackendReady ==
  /\ life.exited = "no"
  /\ processState = "running"
  /\ ~life.isReady
  /\ isConnected' = TRUE
  /\ life' = [life EXCEPT
       !.isReady = TRUE,
       !.startTimer = FALSE,
       !.readyLog = Append(@, [phase |-> life.phase]),
       !.phase = IF @ # "connecting" THEN @
                 ELSE IF variant = "process" THEN "binding" ELSE "waiting",
       !.server = IF life.phase = "connecting" /\ variant = "process" THEN "binding" ELSE @]
  /\ UNCHANGED <<variant, processState, sockState, wire, clients, sessionVars,
                 clientVars, pureVars>>

\* process 'error' (the spawn failed): the handler rejects; the 'close'
\* handler runs behind it
SpawnError ==
  /\ life.exited = "no"
  /\ processState = "running"
  /\ life.phase = "connecting"
  /\ backendLog = <<>>
  /\ processState' = "closed"
  /\ isConnected' = FALSE
  /\ life' = [StartRejected(life) EXCEPT !.startTimer = FALSE,
                                         !.emitted = Append(@, "disconnected")]
  /\ UNCHANGED <<variant, sockState, wire, clients, sessionVars, clientVars, pureVars>>

\* the startup timeout fires (60 s, 120 s in the HTTP variant) before the
\* sentinel was seen; once isReady is set the callback does nothing
StartupTimeout ==
  /\ life.exited = "no"
  /\ life.startTimer
  /\ ~life.isReady
  /\ life' = [StartRejected(life) EXCEPT !.startTimer = FALSE]
  /\ UNCHANGED <<variant, isConnected, processState, sockState, wire, clients, sessionVars,
                 clientVars, pureVars>>

\* waitForVLLMReady(): a health check answers ok (start() goes on to
\* startSocketServer()), or all sixty polls have failed
HealthCheck(ok) ==
  /\ life.exited = "no"
  /\ variant = "http"
  /\ life.phase = "waiting"
  /\ life' = IF ok THEN [life EXCEPT !.phase = "binding", !.server = "binding"]
              ELSE StartRejected(life)
  /\ UNCHANGED <<variant, isConnected, processState, sockState, wire, clients, sessionVars,
                 clientVars, pureVars>>

\* startSocketServer(): the listen callback resolves the promise, and start()
\* returns; the 'error' handler of the server logs the error and nothing else
Listen(ok) ==
  /\ life.exited = "no"
  /\ life.server = "binding"
  /\ life' = IF ok THEN [life EXCEPT !.server = "listening", !.phase = "started"]
              ELSE [life EXCEPT !.server = "error"]
  /\ UNCHANGED <<variant, isConnected, processState, sockState, wire, clients, sessionVars,
                 clientVars, pureVars>>

\* the connections stop() destroys: those of the sessions in this.clients
Registered == {clients[k].socket : k \in {j \in Keys : clients[j] # NoClient}}

\* stop(): destroy the socket of every session, clear the registry, close
\* the listener, write Ctrl+C to the backend process and kill it; under
\* node modelServer.js the signal handler then exits the process, which
\* closes whatever connection is still open
Stop ==
  /\ life.exited = "no"
  /\ ~life.stopped
  /\ LET gone == IF life.host = "script" THEN {s \in Sockets : sockState[s] = "open"}
                  ELSE Registered
     IN /\ sockState' = [s \in Sockets |-> IF s \in gone THEN "closed" ELSE sockState[s]]
        /\ wire' = [s \in Sockets |-> IF s \in gone THEN <<>> ELSE wire[s]]
  /\ clients' = [k \in Keys |-> NoClient]
  /\ life' = [life EXCEPT
       !.stopped = TRUE,
       !.stoppedIn = life.phase,
       !.server = IF @ \in {"binding", "listening"} THEN "closed" ELSE @,
       !.killed = life.spawns > 0,
       !.exited = IF life.host = "script" THEN "0" ELSE @]
  /\ UNCHANGED <<variant, isConnected, processState, sessionVars, clientVars, pureVars>>

Startup ==
  \/ Start
  \/ BackendReady
  \/ SpawnError
  \/ StartupTimeout
  \/ \E ok \in BOOLEAN : HealthCheck(ok)
  \/ \E ok \in BOOLEAN : Listen(ok)

NextLife ==
  \/ Startup
  \/ Stop
  \/ Next

SpecLife == InitLife /\ [][NextLife]_vars

\* ---- the clients on their own ----

\* the configurations a PhindClient is constructed with
Configs == {DefaultConfig, [contextSize |-> 4096, maxTokens |-> 1024]}

\* the lengths of the texts the application sends, in characters: short, a
\* tenth of the default budget, most of it, just above it
MessageLengths == {3, 2400, 20000, 24580}

\* the same for PhindSocketClient, the last one just above its budget
SocketMessageLengths == {3, 61444}

\* the number of characters a chunk of backend output adds to the response
ChunkSizes == {0, 5}

\* the configurations a PhindSocketClient is constructed with
SocketConfigs == {ServerDefaultConfig, DefaultConfig}

InitClient ==
  /\ InitServer
  /\ variant = "process"
  /\ \/ /\ clientKind = "PhindClient"
        /\ phindClient \in {NewPhindClient(config) : config \in Configs}
        /\ socketClient = NewSocketClient
     \/ /\ clientKind = "PhindSocketClient"
        /\ phindClient = NewPhindClient(DefaultConfig)
        /\ socketClient \in {[NewSocketClient EXCEPT !.config = config] : config \in SocketConfigs}
  /\ cleanCall = NoText
  /\ app = NoApp

\* PhindClient.connect(): the child process is spawned and reports ready
PhindConnect ==
  /\ clientKind = "PhindClient"
  /\ phindClient.process = "null"
  /\ phindClient' = [phindClient EXCEPT !.process = "running", !.isConnected = TRUE]
  /\ UNCHANGED <<serverVars, pureVars, clientKind, socketClient>>

PhindSend(len) ==
  /\ clientKind = "PhindClient"
  /\ phindClient.calls < MaxCalls
  /\ phindClient' = PhindSendMessage(phindClient, len)
  /\ UNCHANGED <<serverVars, pureVars, clientKind, socketClient>>

\* process.stdout 'data' of the child process
PhindStdout(size, marker) ==
  /\ clientKind = "PhindClient"
  /\ phindClient.process = "running"
  /\ phindClient.listeners # <<>>
  /\ \A i \in 1..Len(phindClient.listeners) :
       phindClient.listeners[i].responseBuffer + size <= MaxResponseLength
  /\ phindClient' = PhindDataHandler(phindClient, [size |-> size, marker |-> marker])
  /\ UNCHANGED <<serverVars, pureVars, clientKind, socketClient>>

PhindTimeout(rid) ==
  /\ clientKind = "PhindClient"
  /\ rid \in phindClient.timers
  /\ phindClient' = PhindOnTimeout(phindClient, rid)
  /\ UNCHANGED <<serverVars, pureVars, clientKind, socketClient>>

PhindClear ==
  /\ clientKind = "PhindClient"
  /\ phindClient.clears < MaxClears
  /\ phindClient' = PhindClearContext(phindClient)
  /\ UNCHANGED <<serverVars, pureVars, clientKind, socketClient>>

\* process 'close' of the child process
PhindClose ==
  /\ clientKind = "PhindClient"
  /\ phindClient.process = "running"
  /\ phindClient' = [phindClient EXCEPT !.process = "closed", !.isConnected = FALSE]
  /\ UNCHANGED <<serverVars, pureVars, clientKind, socketClient>>

\* PhindSocketClient.connect(): the socket connects
SocketConnect ==
  /\ clientKind = "PhindSocketClient"
  /\ socketClient.socket = "null"
  /\ socketClient.promises = <<>>  \* the first connect() of the instance
  /\ socketClient' = SocketOnConnect([socketClient EXCEPT !.socket = "open"])
  /\ UNCHANGED <<serverVars, pureVars, clientKind, phindClient>>

SocketSend(len) ==
  /\ clientKind = "PhindSocketClient"
  /\ socketClient.calls < MaxSocketCalls
  /\ Len(socketClient.promises) < MaxPromises
  /\ socketClient' = SocketUserSend(socketClient, len)
  /\ UNCHANGED <<serverVars, pureVars, clientKind, phindClient>>

\* the types of the records the servers write
ServerRecordTypes == {"response", "error", "contextCleared", "status"}

\* the lines a read of any shape can carry: records, and text that is no JSON
ServerLines == {[type |-> "response"], GarbledLine}

\* the record of the given type the server writes for the request mid, or
\* on its own account (mid = 0): responses and errors to a request carry its
\* messageId
ServerRecord(type, mid) ==
  IF mid # 0 THEN [type |-> type, messageId |-> mid] ELSE [type |-> type]

\* socket 'data': one read delivers one whole record from the server (reads
\* of any other shape are SocketRead; a behaviour has whole-record reads first)
SocketRecord(type, mid) ==
  /\ clientKind = "PhindSocketClient"
  /\ socketClient.socket = "open"
  /\ socketClient.received = <<>>
  /\ mid # 0 => type \in {"response", "error"} /\ mid <= socketClient.messageId
  /\ socketClient' = SocketOnData(socketClient, Serialise(ServerRecord(type, mid)))
  /\ UNCHANGED <<serverVars, pureVars, clientKind, phindClient>>

SocketTimeout(pid) ==
  /\ clientKind = "PhindSocketClient"
  /\ pid \in socketClient.timers
  /\ socketClient' = SocketOnTimeout(socketClient, pid)
  /\ UNCHANGED <<serverVars, pureVars, clientKind, phindClient>>

SocketClear ==
  /\ clientKind = "PhindSocketClient"
  /\ socketClient.clears < MaxClears
  /\ Len(socketClient.promises) < MaxPromises
  /\ socketClient' = SocketClearContext(socketClient)
  /\ UNCHANGED <<serverVars, pureVars, clientKind, phindClient>>

SocketStatus ==
  /\ clientKind = "PhindSocketClient"
  /\ Len(socketClient.promises) < MaxPromises
  /\ socketClient' = SocketGetStatus(socketClient)
  /\ UNCHANGED <<serverVars, pureVars, clientKind, phindClient>>

\* socket 'data': the server has written the lines recs behind what is still
\* unread of its stream, and one read delivers the next n units of it
SocketRead(recs, n) ==
  LET stream == socketClient.wire \o SerialiseAll(recs)
      data == SubSeq(stream, 1, n)
  IN /\ clientKind = "PhindSocketClient"
     /\ socketClient.socket = "open"
     /\ socketClient.config = ServerDefaultConfig  \* reads of any shape: default construction only
     /\ Len(socketClient.received) + Len(recs) <= MaxServerRecords
     /\ n \in 1..Len(stream)
     /\ recs # <<>> => n > Len(stream) - 3
     /\ socketClient' =
          [SocketOnData(socketClient, data) EXCEPT
             !.wire = SubSeq(stream, n + 1, Len(stream)),
             !.received = @ \o recs,
             !.handledLog = @ \o HandledLines(SplitLines(data, <<>>))]
     /\ UNCHANGED <<serverVars, pureVars, clientKind, phindClient>>

\* the sequences of at most count lines the server can write
RECURSIVE ServerLineSeqs(_)
ServerLineSeqs(count) ==
  IF count = 0 THEN {<<>>}
  ELSE ServerLineSeqs(count - 1)
         \cup {Append(recs, rec) : recs \in {r \in ServerLineSeqs(count - 1) : Len(r) = count - 1},
                                    rec \in ServerLines}

\* socket 'close'
SocketClosed ==
  /\ clientKind = "PhindSocketClient"
  /\ socketClient.socket = "open"
  /\ socketClient' = [socketClient EXCEPT !.socket = "closed", !.isConnected = FALSE]
  /\ UNCHANGED <<serverVars, pureVars, clientKind, phindClient>>

\* the application calls disconnect()
SocketDisconnect ==
  /\ clientKind = "PhindSocketClient"
  /\ socketClient.socket # "null"
  /\ socketClient' = SocketDisconnectClient(socketClient)
  /\ UNCHANGED <<serverVars, pureVars, clientKind, phindClient>>

\* ---- cleanResponse and connectToPhind on their own ----

\* all texts of at most n tokens
RECURSIVE TextsUpTo(_)
TextsUpTo(n) ==
  IF n = 0 THEN {<<>>}
  ELSE TextsUpTo(n - 1)
         \cup {Append(t, k) : t \in {u \in TextsUpTo(n - 1) : Len(u) = n - 1}, k \in Tokens}

\* what the model is meant to answer with
Payloads == {<<"x">>, <<"x", " ", "x">>, <<"x", "\n", "x">>}

\* model output in the chat template: the payload between a start marker with
\* its role and the end marker
Wrapped(role, payload) == <<ImStart, role, "\n">> \o payload \o <<ImEnd>>

\* model output of two paragraphs, with and without a role label behind it
Paragraphs ==
  {<<"x", "\n", "\n", "x">>, <<"x", "\n", " ", "\n", "x">>,
   <<"x", "\n", "\n", "x", "\n", "User:">>, <<"x", "\n", "User:", "\n", "x">>}

Responses ==
  TextsUpTo(MaxTextLength) \cup {Wrapped(role, p) : role \in Roles, p \in Payloads}
    \cup Paragraphs

InitPure ==
  /\ InitServer
  /\ clientKind = "none"
  /\ phindClient = NewPhindClient(DefaultConfig)
  /\ socketClient = NewSocketClient
  /\ \/ /\ cleanCall \in {[owner |-> o, response |-> r, done |-> FALSE, result |-> <<>>] :
                            o \in Cleaners, r \in Responses}
        /\ app = NoApp
     \/ /\ cleanCall = NoText
        /\ app \in {a \in AppEnvironments : a.serverRunning => a.socketFile}

\* a call of cleanResponse
CleanCall ==
  /\ cleanCall # NoText
  /\ ~cleanCall.done
  /\ cleanCall' = [cleanCall EXCEPT !.done = TRUE,
                                    !.result = CleanResponse(cleanCall.owner, cleanCall.response)]
  /\ UNCHANGED <<serverVars, clientVars, app>>

\* the application starts and calls connectToPhind()
AppConnect ==
  /\ app # NoApp
  /\ app.outcome = "none"
  /\ app' = ConnectToPhind(app)
  /\ UNCHANGED <<serverVars, clientVars, cleanCall>>

NextPure ==
  \/ CleanCall
  \/ AppConnect

SpecPure == InitPure /\ [][NextPure]_vars

NextClient ==
  \/ PhindConnect
  \/ \E len \in MessageLengths : PhindSend(len)
  \/ \E size \in ChunkSizes, marker \in BOOLEAN : PhindStdout(size, marker)
  \/ \E rid \in 1..MaxCalls : PhindTimeout(rid)
  \/ PhindClear
  \/ PhindClose
  \/ SocketConnect
  \/ \E len \in SocketMessageLengths : SocketSend(len)
  \/ \E type \in ServerRecordTypes, mid \in 0..MaxPromises : SocketRecord(type, mid)
  \/ \E recs \in ServerLineSeqs(MaxServerRecords), n \in 1..(3 * MaxServerRecords) :
       SocketRead(recs, n)
  \/ \E pid \in 1..MaxPromises : SocketTimeout(pid)
  \/ SocketClear
  \/ SocketStatus
  \/ SocketClosed
  \/ SocketDisconnect

SpecClient == InitClient /\ [][NextClient]_vars

\* the same with timers that fire: the callbacks of the timers armed by the
\* two clients' sendMessage run once their delay has passed.  Nothing makes
\* the application call, the server or the backend write, or a socket close
SpecClientFair ==
  /\ SpecClient
  /\ \A pid \in 1..MaxPromises : WF_vars(SocketTimeout(pid))
  /\ \A rid \in 1..MaxCalls : WF_vars(PhindTimeout(rid))

\* ---- claims ----

C2_FifoDispatch ==
  /\ \A i \in 1..Len(dispatchLog) : dispatchLog[i] = i
  /\ \A i \in 1..Len(requestQueue) : requestQueue[i] = enqueueLog[Len(dispatchLog) + i]
  /\ Len(dispatchLog) + Len(requestQueue) = Len(enqueueLog)
  /\ \A i, j \in 1..Len(backendLog) : i < j => backendLog[i] < backendLog[j]

\* three entries of two sessions reached the backend, the last two after waiting in the queue
C2_Witness ==
  /\ Len(backendLog) = 3
  /\ enqueueLog[2].sock # enqueueLog[3].sock
  /\ Len(settledLog) = 2

\* the records of every outbox that answer a queue entry
EntryRecords(box) ==
  UNION {{<<s, i>> : i \in {j \in 1..Len(box[s]) :
                                /\ box[s][j].type \in {"response", "error"}
                                /\ "eid" \in DOMAIN box[s][j]}} : s \in Sockets}

\* C3: for N sendMessage records sent by distinct sessions, all read by the
\* server, the backend (still running) has received exactly N invocations,
\* one per record, in enqueue order, once the queue has drained
C3_ExactlyN ==
  ( /\ isConnected
    /\ requestQueue = <<>> /\ currentRequest = NoRequest
    /\ \A s \in Sockets : wire[s] = <<>> /\ Len(written[s]) <= 1 )
  => /\ Len(backendLog) = TotalWritten
     /\ \A i \in 1..Len(backendLog) : backendLog[i] = i

\* C4: a response or error record produced for a queue entry is written only
\* to the connection that sent the entry's sendMessage, with its messageId
C4_OwnConnection ==
  \A p \in EntryRecords(outbox) :
    LET rec == outbox[p[1]][p[2]]
    IN /\ EntryOf(rec.eid).sock = p[1]
       /\ rec.messageId = EntryOf(rec.eid).messageId

\* C5: a response is built only from backend output emitted in answer to its
\* own entry: neither the buffer of an unsettled send nor a delivered or
\* dropped response holds output that answers another entry
C5_OwnOutput ==
  /\ \A i \in 1..Len(listeners) :
       listeners[i].eid \in pending => listeners[i].responseBuffer \subseteq {listeners[i].eid}
  /\ \A p \in EntryRecords(outbox) :
       LET rec == outbox[p[1]][p[2]]
       IN rec.type = "response" => rec.content \subseteq {rec.eid}

\* C6: when the send of the in-flight entry fails, the entry's reject handler
\* runs (an error record with its messageId, written to its session's socket
\* if the session is registered, and no response record), the entry is no
\* longer in flight, the head of the queue is dispatched in the same step,
\* and no other entry is settled unless the backend is not connected; no
\* entry is ever settled twice
C6_Step ==
  LET f == currentRequest
      new == SubSeq(settledLog', Len(settledLog) + 1, Len(settledLog'))
  IN ( /\ f # NoRequest
       /\ f.eid \in pending
       /\ new # <<>>
       /\ new[1].kind = "error" )
     => /\ new[1].eid = f.eid
        /\ \A i \in 1..Len(settledLog) : settledLog[i].eid # f.eid
        /\ new[1].to # 0 =>
             LET rec == outbox'[new[1].to][Len(outbox[new[1].to]) + 1]
             IN rec.type = "error" /\ rec.messageId = f.messageId /\ rec.eid = f.eid
        /\ \A p \in EntryRecords(outbox') :
             LET rec == outbox'[p[1]][p[2]]
             IN rec.eid = f.eid => rec.type = "error"
        /\ f.eid \notin pending'
        /\ currentRequest' # f
        /\ IF requestQueue = <<>>
             THEN currentRequest' = NoRequest /\ pending' = {} /\ Len(new) = 1
             ELSE /\ dispatchLog'[Len(dispatchLog) + 1] = Head(requestQueue).eid
                  /\ isConnected =>
                       /\ currentRequest' = Head(requestQueue)
                       /\ pending' = {Head(requestQueue).eid}
                       /\ backendLog' = Append(backendLog, Head(requestQueue).eid)
                       /\ requestQueue' = Tail(requestQueue)
                       /\ Len(new) = 1
        /\ Len(new) > 1 => ~isConnected

\* an entry is settled at most once, and the records written for entries are
\* those of the handlers called
C6_SettledOnce ==
  /\ \A i, j \in 1..Len(settledLog) : i # j => settledLog[i].eid # settledLog[j].eid
  /\ \A p \in EntryRecords(outbox) :
       \E i \in 1..Len(settledLog) :
         /\ settledLog[i].eid = outbox[p[1]][p[2]].eid
         /\ settledLog[i].kind = outbox[p[1]][p[2]].type
         /\ settledLog[i].to = p[1]

C6_FailureIsolated == [][C6_Step]_vars /\ []C6_SettledOnce

\* the first entry has failed and its error was written, the second entry is
\* in flight at the backend and a third one waits
C6_Witness ==
  /\ Len(settledLog) = 1
  /\ settledLog[1].kind = "error"
  /\ settledLog[1].to # 0
  /\ pending = {2}
  /\ Len(requestQueue) = 1

\* C7: at most one send listener is attached to the backend's output, and
\* none of a request that has already timed out
C7_ListenerDetached ==
  /\ Len(listeners) <= 1
  /\ \A i \in 1..Len(listeners) : listeners[i].eid \in pending

\* the lines of recs that are JSON
Decodable(recs) == SelectSeq(recs, LAMBDA r : r # GarbledLine)

\* the number of 'Invalid message format' records written to all connections
InvalidFormatAnswers ==
  Cardinality(UNION {{<<s, i>> : i \in {j \in 1..Len(outbox[s]) :
                                          /\ outbox[s][j].type = "error"
                                          /\ outbox[s][j].message = "Invalid message format"}}
                     : s \in Sockets})

\* the number of lines written by all clients that are not JSON
GarbledWritten ==
  Cardinality(UNION {{<<s, i>> : i \in {j \in 1..Len(written[s]) : written[s][j] = GarbledLine}}
                     : s \in Sockets})

\* C8: whenever the server has read a connection's stream up to a record
\* boundary, it has handled exactly the JSON records written, in order, and
\* it has answered no more lines with 'Invalid message format' than were not JSON
C8_EveryRecordOnce ==
  /\ \A s \in Sockets :
       (sockState[s] = "open" /\ wire[s] = <<>>) => handled[s] = Decodable(written[s])
  /\ InvalidFormatAnswers <= GarbledWritten

\* C9: every open connection has a session of its own: its key is registered
\* with its own socket, and no other open connection holds the same key
C9_OwnSession ==
  \A s \in Sockets :
    sockState[s] = "open" =>
      /\ clients[sockKey[s]] # NoClient
      /\ clients[sockKey[s]].socket = s
      /\ \A t \in Sockets : (t # s /\ sockState[t] = "open") => sockKey[t] # sockKey[s]

\* C10: once a connection has closed, no session of the registry refers to
\* it, the entries it enqueued are still dispatched in their turn, and their
\* result or error is written to no connection
C10_OrphanDropped ==
  /\ \A s \in Sockets : sockState[s] = "closed" =>
       \A k \in Keys : clients[k] # NoClient => clients[k].socket # s
  /\ \A i \in 1..Len(settledLog) : ~settledLog[i].ownerOpen => settledLog[i].to = 0
  /\ Len(dispatchLog) + Len(requestQueue) = Len(enqueueLog)

\* the entries enqueued by connection s that no handler has settled yet
Unsettled(s) ==
  {eid \in 1..Len(enqueueLog) :
     /\ enqueueLog[eid].sock = s
     /\ \A i \in 1..Len(settledLog) : settledLog[i].eid # eid}

\* C11: a session never owns more than one unsettled queue entry
C11_OneOutstanding ==
  \A s \in Sockets : Cardinality(Unsettled(s)) <= 1

\* the latest sendMessage call of each client that found the client
\* connected and not waiting for a response
AdmissionCalls ==
  {call \in {phindClient.lastCall, socketClient.lastCall} :
     call.outcome # "none" /\ call.isConnected /\ ~call.waiting}

\* C12: a sendMessage whose own estimate exceeds the budget is rejected with
\* the context-limit error and nothing is written, whatever the token total
C12_OversizeRejected ==
  \A call \in AdmissionCalls :
    EstimateTokens(call.len) > call.budget =>
      call.outcome = "contextLimit" /\ call.wrote = 0

\* C13: a sendMessage is rejected with the context-limit error, and nothing
\* is written, exactly when total + estimate exceeds the budget and the usage
\* percent exceeds 90; otherwise it is dispatched: written to the backend or
\* to the socket
C13_AdmissionRule ==
  \A call \in AdmissionCalls :
    IF /\ call.tokens + EstimateTokens(call.len) > call.budget
       /\ UsagePercent(call.tokens, call.budget) > 90
      THEN call.outcome = "contextLimit" /\ call.wrote = 0
      ELSE call.outcome = "dispatched" /\ call.wrote > 0

\* the response records written to connection s for entries it enqueued
ResponsesTo(s) ==
  {i \in 1..Len(outbox[s]) :
     /\ outbox[s][i].type = "response"
     /\ EntryOf(outbox[s][i].eid).sock = s}

\* C14: the token total the server keeps for a session has grown by the
\* estimate of the request (and of the response) for every exchange that
\* ended in a response
C14_TokensAdded ==
  \A s \in Sockets :
    (sockState[s] = "open" /\ clients[sockKey[s]] # NoClient /\ clients[sockKey[s]].socket = s) =>
      clients[sockKey[s]].currentTokenCount >=
        Cardinality(ResponsesTo(s)) * EstimateTokens(Len(ClientRecord("sendMessage", 1).content))

\* C15: a token counter never decreases, except at a clearContext, which
\* sets it to zero: in PhindClient, in PhindSocketClient and in the sessions
\* of the server
C15_Step ==
  /\ phindClient'.currentTokenCount < phindClient.currentTokenCount =>
       phindClient'.clears = phindClient.clears + 1
  /\ phindClient'.clears # phindClient.clears => phindClient'.currentTokenCount = 0
  /\ socketClient'.currentTokenCount < socketClient.currentTokenCount =>
       socketClient'.clears = socketClient.clears + 1
  /\ socketClient'.clears # socketClient.clears => socketClient'.currentTokenCount = 0
  /\ \A k \in Keys :
       (clients[k] # NoClient /\ clients'[k] # NoClient) =>
         \/ clients'[k].currentTokenCount >= clients[k].currentTokenCount
         \/ /\ clients'[k].currentTokenCount = 0
            /\ \E s \in Sockets : /\ Len(handled'[s]) > Len(handled[s])
                                  /\ handled'[s][Len(handled'[s])].type = "clearContext"

C15_CounterMonotone == [][C15_Step]_vars

\* a counter that had grown was cleared to zero
C15_Witness ==
  /\ phindClient.clears = 1
  /\ phindClient.currentTokenCount = 0
  /\ phindClient.lastCall.outcome = "dispatched"
  /\ phindClient.lastCall.tokens > 0

\* the record the server decoded in this step on connection s, if any
HandledNow(s) == handled'[s][Len(handled'[s])]

\* C16: when the server handles clearContext for a session, the session's turn
\* list becomes empty and its counter zero, contextCleared is written to that
\* connection and to no other, and the queue, the in-flight entry and all
\* other sessions stay as they are; the status record written for a getStatus
\* shows the session's turn list and counter
C16_Step ==
  \A s \in Sockets :
    Len(handled'[s]) > Len(handled[s]) =>
      /\ HandledNow(s).type = "clearContext" =>
           /\ clients[sockKey[s]] # NoClient
           /\ clients'[sockKey[s]].context = <<>>
           /\ clients'[sockKey[s]].currentTokenCount = 0
           /\ outbox' = [outbox EXCEPT ![s] = Append(@, [type |-> "contextCleared"])]
           /\ \A k \in Keys \ {sockKey[s]} : clients'[k] = clients[k]
           /\ requestQueue' = requestQueue
           /\ currentRequest' = currentRequest
      /\ HandledNow(s).type = "getStatus" =>
           /\ Len(outbox'[s]) = Len(outbox[s]) + 1
           /\ LET rec == outbox'[s][Len(outbox'[s])]
              IN /\ rec.type = "status"
                 /\ "context" \in DOMAIN rec
                 /\ "currentTokenCount" \in DOMAIN rec
                 /\ rec.context = clients[sockKey[s]].context
                 /\ rec.currentTokenCount = clients[sockKey[s]].currentTokenCount

C16_ClearContext == [][C16_Step]_vars

\* the authenticate records written by all clients
AuthenticateWritten ==
  UNION {{written[s][i] : i \in {j \in 1..Len(written[s]) : written[s][j].type = "authenticate"}}
         : s \in Sockets}

\* C17: the identity stored in a session, and the identity carried by an
\* authenticated record, is exactly the userId and username of an
\* authenticate record a client supplied
C17_AuthenticateExact ==
  /\ \A k \in Keys :
       (clients[k] # NoClient /\ clients[k] # NewSession(clients[k].socket)) =>
         \E a \in AuthenticateWritten :
           a.userId = clients[k].userId /\ a.username = clients[k].username
  /\ \A s \in Sockets : \A i \in 1..Len(outbox[s]) :
       outbox[s][i].type = "authenticated" =>
         \E a \in AuthenticateWritten :
           a.userId = outbox[s][i].userId /\ a.username = outbox[s][i].username

\* C18: on every connection a response record is preceded by an authenticated
\* record
C18_AuthenticatedFirst ==
  \A s \in Sockets : \A i \in 1..Len(outbox[s]) :
    outbox[s][i].type = "response" =>
      \E j \in 1..(i - 1) : outbox[s][j].type = "authenticated"

\* C19: a record of an unrecognized type is answered with exactly
\* {type: error, message: Unknown message type} on its own connection, and
\* nothing else changes: connections, registry, queue, in-flight entry
C19_Step ==
  \A s \in Sockets :
    (Len(handled'[s]) > Len(handled[s]) /\ HandledNow(s).type = "bogus") =>
      /\ outbox' = [outbox EXCEPT ![s] =
                      Append(@, [type |-> "error", message |-> "Unknown message type"])]
      /\ sockState' = sockState
      /\ clients' = clients
      /\ clients[sockKey[s]] # NoClient
      /\ requestQueue' = requestQueue
      /\ currentRequest' = currentRequest
      /\ pending' = pending

C19_UnknownType == [][C19_Step]_vars

\* the units read from connection s in this step
ReadNow(s) == SubSeq(consumed'[s], Len(consumed[s]) + 1, Len(consumed'[s]))

\* C20: a line that fails to decode is answered with error 'Invalid message
\* format' on its connection, the connection stays open, the session stays
\* registered and nothing is enqueued; 'Invalid message format' is written
\* only for lines that fail to decode
C20_Step ==
  \A s \in Sockets :
    (wire[s] = <<>> /\ ReadNow(s) = Line(GarbledLine)) =>
      /\ outbox' = [outbox EXCEPT ![s] =
                      Append(@, [type |-> "error", message |-> "Invalid message format"])]
      /\ sockState' = sockState
      /\ clients' = clients
      /\ clients[sockKey[s]] # NoClient
      /\ enqueueLog' = enqueueLog
      /\ handled' = handled

C20_InvalidFormat == [][C20_Step]_vars /\ [](InvalidFormatAnswers <= GarbledWritten)

\* C21: PhindSocketClient handles every complete record the server has
\* written exactly once and in order, whatever the shape of the reads: once
\* everything written has been read, the records passed to the switch are
\* the decodable lines written, in order (a record split over two reads is
\* handled, a line that is no JSON does not take other records with it).
C21_ServerRecordsOnce ==
  (clientKind = "PhindSocketClient" /\ socketClient.wire = <<>>)
    => socketClient.handledLog = Decodable(socketClient.received)

\* C22: cleanResponse, given model output that wraps a payload between a
\* start marker with its role and the end marker, returns exactly the payload.
C22_WrappedPayload ==
  \A role \in Roles, p \in Payloads :
    (cleanCall # NoText /\ cleanCall.done /\ cleanCall.response = Wrapped(role, p))
      => cleanCall.result = p

\* C29: when no model server is running the application ends up in direct
\* mode, with a PhindClient, also when a socket file is left over from a
\* server that is gone.
C29_FallsBackToDirect ==
  (app # NoApp /\ app.outcome # "none" /\ ~app.serverRunning)
    => /\ app.client = "PhindClient"
       /\ app.backend => app.outcome = "connected"

\* C23: the backend becomes ready at most once in the life of the server
\* process, and never after its startup has failed (startup timeout, spawn
\* error) or after the backend process has closed, whatever the backend
\* prints later.
C23_ReadyOnce ==
  /\ Len(life.readyLog) <= 1
  /\ \A i \in 1..Len(life.readyLog) : life.readyLog[i].phase # "failed"
  /\ processState = "closed" => ~isConnected

\* C25: when the listener cannot bind its socket during startup, start()
\* does not stay pending and the server does not keep running: start() has
\* failed, and under node modelServer.js the process has exited with an error.
C25_BindFailureFatal ==
  life.server = "error"
    => /\ life.phase = "failed"
       /\ life.host = "script" => life.exited = "1"

\* C26: once stop() has run on a started server the listener is closed, no connection is open,
\* the registry is empty, the backend process has been terminated in the
\* process variant and left running in the HTTP variant, and no record is
\* written to any client any more.
C26_State ==
  (life.stopped /\ life.stoppedIn = "started")
    => /\ life.server \notin {"binding", "listening"}
       /\ \A s \in Sockets : sockState[s] # "open"
       /\ \A k \in Keys : clients[k] = NoClient
       /\ (variant = "process" /\ life.spawns > 0) => life.killed
       /\ variant = "http" => ~life.killed

C26_Step == (life.stopped /\ life.stoppedIn = "started") => outbox' = outbox

C26_Stop == []C26_State /\ [][C26_Step]_vars

\* the sessions in the registry
LiveSessions == {k \in Keys : clients[k] # NoClient}

\* C30: the number of live sessions never exceeds config.maxConcurrentUsers.
C30_SessionLimit == Cardinality(LiveSessions) <= life.maxConcurrentUsers

\* the entries dispatched by the step
NewlyDispatched == {dispatchLog'[i] : i \in (Len(dispatchLog) + 1)..Len(dispatchLog')}

\* the records about entry eid the step writes to connection s
NewRecordsAt(s, eid) ==
  LET new == {i \in (Len(outbox[s]) + 1)..Len(outbox'[s]) :
                outbox'[s][i].type \in {"response", "error"} /\ outbox'[s][i].eid = eid}
  IN {outbox'[s][i] : i \in new}

NewRecordsOf(eid) == UNION {NewRecordsAt(s, eid) : s \in Sockets}

\* C24: when the backend process closes, the disconnected event is emitted
\* and the backend is not started again; every entry dispatched while the
\* backend is not ready fails with the not-connected error and nothing about
\* it reaches the backend; the queue is drained behind it.
C24_Step ==
  /\ (processState = "running" /\ processState' = "closed")
       => /\ ~isConnected'
          /\ life'.emitted = Append(life.emitted, "disconnected")
          /\ life'.spawns = life.spawns
  /\ processState = "closed" => (processState' = "closed" /\ ~isConnected')
  /\ ~isConnected =>
       /\ backendLog' = backendLog
       /\ \A eid \in NewlyDispatched :
            /\ eid \notin pending'
            /\ \E j \in 1..Len(settledLog') :
                 settledLog'[j].eid = eid /\ settledLog'[j].kind = "error"
            /\ \A rec \in NewRecordsOf(eid) :
                 rec.type = "error" /\ rec.message = NotConnectedError
       /\ NewlyDispatched # {} => (requestQueue' = <<>> /\ currentRequest' = NoRequest)

C24_BackendClosed == [][C24_Step]_vars

\* the backend has closed with one entry in flight and one queued; the entry
\* in flight has timed out and the queued one was dispatched and refused
C24_Witness ==
  /\ ~isConnected
  /\ life.emitted = <<"disconnected">>
  /\ Len(dispatchLog) >= 2
  /\ dispatchLog[2] \notin {backendLog[i] : i \in 1..Len(backendLog)}
  /\ \E s \in Sockets : \E j \in 1..Len(outbox[s]) :
       /\ outbox[s][j].type = "error"
       /\ outbox[s][j].message = NotConnectedError
       /\ outbox[s][j].eid = dispatchLog[2]
  /\ requestQueue = <<>>
  /\ currentRequest = NoRequest

\* C27: the input budget a client works with is the context size it was
\* configured with minus the maximum generation length it was configured
\* with, for every configuration.
C27_BudgetFromConfig ==
  /\ phindClient.lastCall # NoCall =>
       phindClient.lastCall.budget =
         phindClient.config.contextSize - phindClient.config.maxTokens
  /\ socketClient.lastCall # NoCall =>
       socketClient.lastCall.budget =
         socketClient.config.contextSize - socketClient.config.maxTokens

\* accepted entries that have not settled
C28_Unsettled ==
  {eid \in 1..Len(enqueueLog) : \A j \in 1..Len(settledLog) : settledLog[j].eid # eid}

\* C28: the vLLM server has the requests of different clients outstanding at
\* the completion API at the same time: with the backend connected, of two
\* accepted requests of different connections that have not settled, both
\* have been posted, neither waits for the other to finish.
C28_ConcurrentRequests ==
  (variant = "http" /\ isConnected) =>
    \A e1 \in C28_Unsettled, e2 \in C28_Unsettled :
      enqueueLog[e1].sock # enqueueLog[e2].sock => (e1 \in pending /\ e2 \in pending)

\* the status records the step writes to connection s
NewStatusAt(s) ==
  {outbox'[s][i] : i \in {j \in (Len(outbox[s]) + 1)..Len(outbox'[s]) :
                            outbox'[s][j].type = "status"}}

\* C31: a status record shows the state getStatus is handled in: connected
\* is the readiness flag, the session count the number of sessions in the
\* registry, queueLength the number of entries waiting (the one in flight
\* not counted), the owner in flight the session id of the entry in flight
\* or none; handling getStatus changes nothing but what is written.
C31_Step ==
  \A s \in Sockets :
    /\ \A rec \in NewStatusAt(s) :
         /\ rec.connected = isConnected
         /\ rec.activeClients = Cardinality(LiveSessions)
         /\ rec.queueLength = Len(requestQueue)
         /\ rec.currentRequest =
              (IF currentRequest # NoRequest THEN currentRequest.clientId ELSE NoKey)
    /\ (Len(handled'[s]) > Len(handled[s]) /\ HandledNow(s).type = "getStatus") =>
         /\ clients[sockKey[s]] # NoClient =>
              \E t \in Sockets : /\ Cardinality(NewStatusAt(t)) = 1
                                  /\ Len(outbox'[t]) = Len(outbox[t]) + 1
         /\ UNCHANGED <<variant, now, sockState, sockKey, clients, requestQueue, currentRequest,
                         isConnected, processState, listeners, timers, pending, backendLog,
                         answered, enqueueLog, dispatchLog, settledLog, life>>

C31_StatusRecord == [][C31_Step]_vars

\* a status record written while one entry is in flight and another waits
C31_Witness ==
  \E s \in Sockets : \E i \in 1..Len(outbox[s]) :
    /\ outbox[s][i].type = "status"
    /\ outbox[s][i].queueLength = 1
    /\ outbox[s][i].currentRequest # NoKey
    /\ outbox[s][i].activeClients = 2

\* C32: draining never stalls: between the callbacks of the server, whenever
\* an entry waits in the queue an entry is in flight, its send not yet settled.
C32_NoStall ==
  requestQueue # <<>> =>
    /\ currentRequest # NoRequest
    /\ currentRequest.eid \in pending

\* an entry waits behind the one in flight, after an earlier entry failed
C32_Witness ==
  /\ Len(requestQueue) = 1
  /\ currentRequest # NoRequest
  /\ currentRequest.eid \in pending
  /\ \E j \in 1..Len(settledLog) : settledLog[j].kind = "error"

\* entry eid has been settled
C33_Settled(eid) == \E j \in 1..Len(settledLog) : settledLog[j].eid = eid

\* C33: with timers that fire, every entry accepted into the queue is
\* eventually settled and the queue eventually becomes empty, in both
\* variants, whatever the backend does or fails to do.
C33_EventuallySettled ==
  /\ \A eid \in 1..MaxRecords : (Len(enqueueLog) >= eid) ~> C33_Settled(eid)
  /\ (requestQueue # <<>>) ~> (requestQueue = <<>>)

\* the records the step has written to the socket
C34_Written == SubSeq(socketClient'.sent, Len(socketClient.sent) + 1, Len(socketClient'.sent))

\* C34: PhindSocketClient sends a control message as one record of its own
\* kind and keeps the pending-response slot free for it: connecting writes one
\* authenticate record, clearContext writes one clearContext record, and a
\* user sendMessage made right after connect() is not refused with
\* 'Already waiting for a response'.
C34_Step ==
  /\ (socketClient.socket = "null" /\ socketClient'.socket = "open")
       => /\ Len(C34_Written) = 1
          /\ C34_Written[1].type = "authenticate"
          /\ socketClient'.responsePromise = NoPromise
  /\ (socketClient'.clears = socketClient.clears + 1 /\ socketClient.isConnected
        /\ socketClient.responsePromise = NoPromise)
       => /\ Len(C34_Written) = 1
          /\ C34_Written[1].type = "clearContext"
          /\ socketClient'.responsePromise = NoPromise
  /\ (socketClient'.calls = 1 /\ socketClient.calls = 0 /\ socketClient.isConnected
        /\ socketClient.handledLog = <<>> /\ socketClient.timers = {1})
       => socketClient'.lastCall.outcome # "alreadyWaiting"

C34_ControlRecords == [][C34_Step]_vars

\* sendMessage takes the next messageId exactly when it creates a promise, so
\* the request of promise pid went out under messageId pid
C35_MessageIdOf(pid) == pid

\* C35: PhindSocketClient settles the promise of a user's sendMessage only
\* with the response or error record that carries the messageId of that
\* request: not with a record for another request, nor with a record that
\* has no messageId.
C35_OwnRecordOnly ==
  /\ socketClient.messageId = Len(socketClient.promises)
  /\ socketClient.lastSettled.pid \in socketClient.userPromises
       => socketClient.lastSettled.messageId = C35_MessageIdOf(socketClient.lastSettled.pid)

\* the timer armed for promise pid fires in this step
C36_TimerFires(pid) == pid \in socketClient.timers /\ pid \notin socketClient'.timers

\* C36: the timeout timer armed by one sendMessage of PhindSocketClient can
\* only fail that request: when it fires while the slot holds another request
\* (its own was answered before), the slot and every other promise stay as
\* they are.
C36_Step ==
  \A pid \in 1..MaxPromises :
    (C36_TimerFires(pid) /\ socketClient.responsePromise # pid)
      => /\ socketClient'.responsePromise = socketClient.responsePromise
         /\ \A other \in (1..Len(socketClient.promises)) \ {pid} :
              socketClient'.promises[other] = socketClient.promises[other]

C36_OwnTimerOnly == [][C36_Step]_vars

\* C37: with timers that fire, every promise PhindSocketClient.sendMessage
\* returns to the application is eventually settled: resolved by a response,
\* or rejected by an error, by its timeout, or because the client disconnects
\* or the connection closes while it is pending.
C37_EventuallySettled ==
  \A pid \in 1..MaxPromises :
    (pid \in socketClient.userPromises)
      ~> (pid \in socketClient.userPromises /\ socketClient.promises[pid] # "pending")

\* backend output completes the attached listeners in this step, and every
\* one of them belongs to a request that has failed with 'Response timeout'
C38_LateOutput ==
  /\ phindClient.listeners # <<>>
  /\ phindClient'.listeners = <<>>
  /\ \A i \in 1..Len(phindClient.listeners) :
       phindClient.promises[phindClient.listeners[i].rid] = "rejected"

\* C38: in PhindClient a request that failed with 'Response timeout' has no
\* later effect: backend output that arrives afterwards neither adds tokens to
\* the total nor touches the pending-response slot.
C38_Step ==
  C38_LateOutput
    => /\ phindClient'.currentTokenCount = phindClient.currentTokenCount
       /\ phindClient'.responsePromise = phindClient.responsePromise

C38_TimeoutFinal == [][C38_Step]_vars

\* C39: PhindClient writes the system prompt exactly once per context epoch
\* (an epoch starts at construction and at every clearContext): the first
\* line written in an epoch is the system prompt, the user message follows it
\* at once, and no other line written is a system prompt.  A sendMessage that
\* is rejected writes nothing, so it does not use up the prompt.
C39_SystemPromptPerEpoch ==
  LET stdin == phindClient.stdin
  IN /\ \A i \in 1..Len(stdin) :
          /\ stdin[i].kind = "system" <=> (i - 1) \in phindClient.epochStarts
          /\ stdin[i].kind = "system" => i < Len(stdin) /\ stdin[i + 1].kind = "message"
     /\ phindClient.lastCall.outcome \notin {"none", "dispatched"}
          => phindClient.lastCall.wrote = 0

\* a second epoch has had its prompt: the first message after clearContext
\* was written behind a system prompt, and one of the three calls made was
\* rejected before dispatch
C39_Witness ==
  /\ phindClient.calls = 3
  /\ phindClient.epochStarts = {0, 2}
  /\ Len(phindClient.stdin) = 4
  /\ phindClient.stdin[3].kind = "system"
  /\ phindClient.stdin[4].kind = "message"

\* a line the loop of cleanResponse does not keep: blank, or carrying a
\* marker or role label
C40_Skipped(line) ==
  \/ TrimText(line) = <<>>
  \/ \E i \in 1..Len(line) : line[i] \in Labels

\* the leading lines that are not kept, dropped
RECURSIVE C40_DropSkipped(_)
C40_DropSkipped(lines) ==
  IF lines # <<>> /\ C40_Skipped(Head(lines)) THEN C40_DropSkipped(Tail(lines)) ELSE lines

\* the lines up to the first one that is not kept
RECURSIVE C40_TakeKept(_)
C40_TakeKept(lines) ==
  IF lines = <<>> \/ C40_Skipped(Head(lines)) THEN <<>>
  ELSE <<Head(lines)>> \o C40_TakeKept(Tail(lines))

\* the first contiguous run of kept lines
C40_FirstRun(lines) == C40_TakeKept(C40_DropSkipped(lines))

\* C40: cleanResponse returns exactly the first contiguous run of non-empty
\* lines that carry no marker or role label: it skips leading blank or marker
\* lines and stops at the first blank line or marker line after real content.
C40_FirstRunOnly ==
  (cleanCall # NoText /\ cleanCall.done)
    => cleanCall.result =
         TrimText(JoinText(C40_FirstRun(
           SplitText(StripMarkers(cleanCall.owner, cleanCall.response), <<>>))))
====
